---- MODULE Spec2Model ----
(***************************************************************************)
(* Boat Renting API (main.py): the pricing function compute_quote, the     *)
(* boat lookup, the startup seeding and the request handlers over the      *)
(* document store.                                                         *)
(*                                                                         *)
(* Money is held in thousandths of a dollar (420.0 is 420000), so that     *)
(* round(x, 2) is a real operation: a value rounded to 2 decimals is a     *)
(* multiple of 10.  Tax rates are held in thousandths (0.08 is 80).        *)
(* Python's round is round-half-to-even; the binary representation error   *)
(* of float is not modelled.  Dates are day ordinals.                      *)
(*                                                                         *)
(* Spec is the service: startup seeding, then requests, one handler per    *)
(* step.  SpecBooking runs create_booking on two threads with its read and *)
(* its insert as separate steps.  SpecQuote calls compute_quote directly   *)
(* on every input of its bounded sets.  The pass-through fields of a       *)
(* booking (customer_name, customer_email, customer_phone, notes,          *)
(* created_at) and of a boat (type, location, images, description,         *)
(* features) are left out.                                                 *)
(***************************************************************************)
EXTENDS Integers, Sequences, FiniteSets, TLC

VARIABLES
    db,       \* database.db: TRUE when the store is initialised, FALSE for None
    phase,    \* "startup" before the startup event has run, then "serving"
    boat,     \* db["boat"]: the sequence of boat documents; _id is the index
    booking,  \* db["booking"]: the sequence of booking documents
    resp,     \* the request last handled and the response it got
    pending,  \* per worker thread, a create_booking between its read and its insert
    call      \* a direct call of compute_quote: its arguments and its result

vars == <<db, phase, boat, booking, resp, pending, call>>

(***************************************************************************)
(* Bounds                                                                  *)
(***************************************************************************)
MaxDay == 3        \* dates of a direct compute_quote call range over 0..MaxDay
MaxGuests == 2     \* guests range over 1..MaxGuests

(***************************************************************************)
(* Python values                                                           *)
(***************************************************************************)
EmptyDict == [k \in {} |-> 0]

\* dict.get(key, default)
Get(d, key, default) == IF key \in DOMAIN d THEN d[key] ELSE default

\* raise HTTPException(status_code=..., detail=...)
HTTPException(status_code, detail) ==
    [raised |-> TRUE, status_code |-> status_code, detail |-> detail]

\* a normal return
Return(value) == [raised |-> FALSE, value |-> value]

\* n/d rounded to the nearest integer, ties to the even one (d > 0)
RoundHalfEven(n, d) ==
    LET q == n \div d
        r == n % d
    IN  IF 2 * r < d THEN q
        ELSE IF 2 * r > d THEN q + 1
        ELSE IF q % 2 = 0 THEN q ELSE q + 1

\* round(x, 2) for x = num/den thousandths of a dollar: a whole number of cents
round2(num, den) == 10 * RoundHalfEven(num, 10 * den)

(***************************************************************************)
(* Utility functions                                                       *)
(***************************************************************************)
EXTRA_PRICING ==
    [skipper |-> [type |-> "per_day", amount |-> 150000],
     fuel    |-> [type |-> "per_day", amount |-> 80000],
     snorkel |-> [type |-> "per_person_per_day", amount |-> 20000]]

date_range_days_lenient(start, end) ==
    LET days == end - start
    IN  IF days < 0
        THEN HTTPException(400, "End date must be after start date by at least 1 day")
        ELSE Return(days)

date_range_days(start, end) ==
    LET days == end - start
    IN  IF days < 1
        THEN HTTPException(400, "End date must be after start date by at least 1 day")
        ELSE Return(days)

\* the keys of the loop's iterations that reach the pricing: enabled, with a rule
PricedKeys_any_flag(extras) == {key \in DOMAIN extras : key \in DOMAIN EXTRA_PRICING}

PricedKeys(extras) ==
    {key \in DOMAIN extras : extras[key] /\ key \in DOMAIN EXTRA_PRICING}

\* cost of one priced key
ExtraCost_no_guests(key, guests, days) ==
    LET rule == EXTRA_PRICING[key]
    IN  IF rule.type = "per_day" THEN rule.amount * days
        ELSE IF rule.type = "per_person_per_day" THEN rule.amount * days
        ELSE 0

ExtraCost(key, guests, days) ==
    LET rule == EXTRA_PRICING[key]
    IN  IF rule.type = "per_day" THEN rule.amount * days
        ELSE IF rule.type = "per_person_per_day" THEN rule.amount * guests * days
        ELSE 0

\* extras_total after the loop: the unrounded costs added up
RECURSIVE ExtrasTotal(_, _, _)
ExtrasTotal(keys, guests, days) ==
    IF keys = {} THEN 0
    ELSE LET key == CHOOSE k \in keys : TRUE
         IN  ExtraCost(key, guests, days) + ExtrasTotal(keys \ {key}, guests, days)

Subtotal_no_cleaning(base, extras_total, cleaning_fee) == base + extras_total

Subtotal(base, extras_total, cleaning_fee) == base + extras_total + cleaning_fee

compute_quote(b, start, end, guests, extras) ==
    LET d == date_range_days(start, end)
    IN  IF d.raised THEN d
        ELSE
        LET days == d.value
            base_daily == Get(b, "base_price_per_day", 0)
            cleaning_fee == Get(b, "cleaning_fee", 0)
            tax_rate == Get(b, "tax_rate", 0)
            base == round2(base_daily * days, 1)
            cleaning == round2(cleaning_fee, 1)
            keys == PricedKeys(extras)
            extras_total == ExtrasTotal(keys, guests, days)
            subtotal == Subtotal(base, extras_total, cleaning)
            tax == round2(subtotal * tax_rate, 1000)
            total == round2(subtotal + tax, 1)
        IN  Return([nights |-> days,
                    base |-> base,
                    extras |-> [key \in keys |-> round2(ExtraCost(key, guests, days), 1)],
                    cleaning_fee |-> cleaning,
                    tax |-> tax,
                    total |-> total,
                    currency |-> "USD",
                    transparent |-> TRUE,
                    notes |-> "Prices include all fees and taxes. No hidden fees."])

(***************************************************************************)
(* Boat documents                                                          *)
(***************************************************************************)
\* sample_boats of seed_boats (the priced and validated fields)
sample_boats ==
    << [name |-> "Aqua Breeze 32", capacity |-> 6, base_price_per_day |-> 420000,
        tax_rate |-> 80, cleaning_fee |-> 35000],
       [name |-> "Sunset Whisper 45", capacity |-> 10, base_price_per_day |-> 850000,
        tax_rate |-> 100, cleaning_fee |-> 60000],
       [name |-> "Sandline 24", capacity |-> 4, base_price_per_day |-> 260000,
        tax_rate |-> 70, cleaning_fee |-> 25000] >>

\* schemas.Boat: the constraints of the validated fields, with their defaults
Boat(b) ==
    /\ {"name", "capacity", "base_price_per_day"} \subseteq DOMAIN b
    /\ b.capacity >= 1
    /\ b.base_price_per_day >= 0
    /\ Get(b, "tax_rate", 70) >= 0 /\ Get(b, "tax_rate", 70) <= 300
    /\ Get(b, "cleaning_fee", 0) >= 0

\* bodies a client may post to /api/boats (boat: Dict, any keys and values)
NegativeBoat ==
    [name |-> "Refund", capacity |-> 0, base_price_per_day |-> -100000,
     tax_rate |-> 500, cleaning_fee |-> -5000]
FractionBoat ==
    [name |-> "Dinghy", capacity |-> 2, base_price_per_day |-> 19995,
     tax_rate |-> 75, cleaning_fee |-> 5005]

(***************************************************************************)
(* The document store (database.py)                                        *)
(***************************************************************************)
\* bson.ObjectId(boat_id) succeeds: identifiers are numbered from 1 in insertion
\* order and 0 stands for a string that is no ObjectId
IsObjectId(boat_id) == boat_id >= 1

\* collection.find_one({"_id": oid}): the document, or None (here: EmptyDict
\* tagged absent)
find_one(collection, oid) ==
    IF oid \in 1..Len(collection)
    THEN [found |-> TRUE, doc |-> collection[oid]]
    ELSE [found |-> FALSE, doc |-> EmptyDict]

\* create_document(collection_name, data): the collection after the insert
create_document(collection, data) == Append(collection, data)

\* the identifier create_document returns
inserted_id(collection) == Len(collection) + 1

\* get_documents("boat")
get_documents(collection) == collection

(***************************************************************************)
(* Boat lookup                                                             *)
(***************************************************************************)
get_boat_or_404_default(boat_id) ==
    IF ~IsObjectId(boat_id)
    THEN HTTPException(400, "Invalid boat_id")
    ELSE Return(find_one(boat, boat_id).doc)

get_boat_or_404(boat_id) ==
    IF ~IsObjectId(boat_id)
    THEN HTTPException(400, "Invalid boat_id")
    ELSE LET b == find_one(boat, boat_id)
         IN  IF ~b.found
             THEN HTTPException(404, "Boat not found")
             ELSE Return(b.doc)

(***************************************************************************)
(* Seed data on first run                                                  *)
(***************************************************************************)
\* what the store may do to a seeding call: answer, or raise from
\* count_documents or from insert_many, the latter with the one batch of
\* documents written or not
StoreFaults == {"none", "count_documents", "insert_many"}

seed_boats_always(fault, written) ==
    IF ~db THEN boat
    ELSE IF fault = "count_documents" THEN boat
    ELSE IF fault = "insert_many"
         THEN boat \o SubSeq(sample_boats, 1, written)
         ELSE boat \o sample_boats

\* the boat collection after seed_boats
seed_boats_store(fault, written) ==
    IF ~db THEN boat
    ELSE IF fault = "count_documents" THEN boat
    ELSE IF Len(boat) = 0
         THEN IF fault = "insert_many"
              THEN boat \o SubSeq(sample_boats, 1, written)
              ELSE boat \o sample_boats
         ELSE boat

seed_boats ==
    /\ phase = "startup"
    /\ \E fault \in StoreFaults, written \in {0, Len(sample_boats)} :
          /\ boat' = seed_boats_store(fault, written)
          /\ resp' = [op |-> "seed_boats", req |-> [fault |-> fault],
                      result |-> Return(EmptyDict)]
    /\ phase' = "serving"
    /\ UNCHANGED <<db, booking, pending, call>>

(***************************************************************************)
(* Requests                                                                *)
(***************************************************************************)
MaxBoats == 4      \* create_boat is refused beyond MaxBoats stored boats
MaxBookings == 2   \* create_booking is refused beyond MaxBookings stored bookings

BoatBodies == {NegativeBoat}
RequestDates == {0, 1}
RequestExtras == {[snorkel |-> TRUE, wifi |-> TRUE, fuel |-> FALSE]}
RequestGuests == {2}
Requests ==
    [boat_id : 0..(MaxBoats + 1), start_date : RequestDates, end_date : RequestDates,
     guests : RequestGuests, extras : RequestExtras]

\* date.isoformat()
isoformat(d) == <<"iso", d>>

\* GET /api/boats
to_public(collection, i) == [id |-> i] @@ collection[i]

list_boats ==
    /\ phase = "serving"
    /\ LET docs == IF db THEN get_documents(boat) ELSE <<>>
       IN  resp' = [op |-> "list_boats", req |-> EmptyDict,
                    result |-> Return([i \in 1..Len(docs) |-> to_public(docs, i)])]
    /\ UNCHANGED <<db, phase, boat, booking, pending, call>>

\* POST /api/boats
create_boat(body) ==
    /\ phase = "serving"
    /\ IF ~db
       THEN /\ resp' = [op |-> "create_boat", req |-> body,
                        result |-> HTTPException(500, "Database not available")]
            /\ boat' = boat
       ELSE /\ Len(boat) < MaxBoats
            /\ boat' = create_document(boat, body)
            /\ resp' = [op |-> "create_boat", req |-> body,
                        result |-> Return([id |-> inserted_id(boat)])]
    /\ UNCHANGED <<db, phase, booking, pending, call>>

\* POST /api/quote: what the handler raises or returns
quote_result(req) ==
    IF ~db THEN HTTPException(500, "Database not available")
    ELSE LET b == get_boat_or_404(req.boat_id)
         IN  IF b.raised THEN b
             ELSE LET breakdown == compute_quote(b.value, req.start_date, req.end_date,
                                                 req.guests, req.extras)
                  IN  IF breakdown.raised THEN breakdown
                      ELSE Return([boat_id |-> req.boat_id] @@ breakdown.value)

quote(req) ==
    /\ phase = "serving"
    /\ resp' = [op |-> "quote", req |-> req, result |-> quote_result(req)]
    /\ UNCHANGED <<db, phase, boat, booking, pending, call>>

\* POST /api/bookings up to the insert: what the handler raises, or booking_doc
booking_doc_confirmed(req) ==
    IF ~db THEN HTTPException(500, "Database not available")
    ELSE LET b == get_boat_or_404(req.boat_id)
         IN  IF b.raised THEN b
             ELSE LET pricing == compute_quote(b.value, req.start_date, req.end_date,
                                               req.guests, req.extras)
                  IN  IF pricing.raised THEN pricing
                      ELSE Return([boat_id |-> req.boat_id,
                                   start_date |-> isoformat(req.start_date),
                                   end_date |-> isoformat(req.end_date),
                                   guests |-> req.guests,
                                   extras |-> req.extras,
                                   pricing |-> pricing.value,
                                   status |-> "confirmed"])

\* two date ranges share a night
Overlap(s1, e1, s2, e2) == s1 < e2 /\ s2 < e1

booking_doc_checks_availability(req) ==
    IF ~db THEN HTTPException(500, "Database not available")
    ELSE LET b == get_boat_or_404(req.boat_id)
         IN  IF b.raised THEN b
             ELSE LET pricing == compute_quote(b.value, req.start_date, req.end_date,
                                               req.guests, req.extras)
                  IN  IF pricing.raised THEN pricing
                      ELSE IF \E i \in 1..Len(booking) :
                                 /\ booking[i].boat_id = req.boat_id
                                 /\ Overlap(booking[i].start_date[2], booking[i].end_date[2],
                                            req.start_date, req.end_date)
                      THEN HTTPException(409, "Boat not available")
                      ELSE Return([boat_id |-> req.boat_id,
                                   start_date |-> isoformat(req.start_date),
                                   end_date |-> isoformat(req.end_date),
                                   guests |-> req.guests,
                                   extras |-> req.extras,
                                   pricing |-> pricing.value,
                                   status |-> "requested"])

booking_doc(req) ==
    IF ~db THEN HTTPException(500, "Database not available")
    ELSE LET b == get_boat_or_404(req.boat_id)
         IN  IF b.raised THEN b
             ELSE LET pricing == compute_quote(b.value, req.start_date, req.end_date,
                                               req.guests, req.extras)
                  IN  IF pricing.raised THEN pricing
                      ELSE Return([boat_id |-> req.boat_id,
                                   start_date |-> isoformat(req.start_date),
                                   end_date |-> isoformat(req.end_date),
                                   guests |-> req.guests,
                                   extras |-> req.extras,
                                   pricing |-> pricing.value,
                                   status |-> "requested"])

\* the response of create_booking after create_document
booking_response(doc, id) ==
    Return([id |-> id, status |-> "requested", pricing |-> doc.pricing])

\* the booking collection after create_booking, with the insert moved before
\* the pricing
bookings_after_insert_first(req, doc) ==
    IF doc.raised /\ doc.detail # "End date must be after start date by at least 1 day"
    THEN booking
    ELSE create_document(booking, [boat_id |-> req.boat_id, status |-> "requested"])

\* the booking collection after create_booking
bookings_after(req, doc) ==
    IF doc.raised THEN booking ELSE create_document(booking, doc.value)

create_booking(req) ==
    /\ phase = "serving"
    /\ LET doc == booking_doc(req)
       IN  /\ ~doc.raised => Len(booking) < MaxBookings
           /\ booking' = bookings_after(req, doc)
           /\ resp' = [op |-> "create_booking", req |-> req,
                       result |-> IF doc.raised THEN doc
                                  ELSE booking_response(doc.value, inserted_id(booking))]
    /\ UNCHANGED <<db, phase, boat, pending, call>>

NoResponse == [op |-> "none", req |-> EmptyDict, result |-> Return(EmptyDict)]

\* the boat collection found at startup: empty, or kept from an earlier run
StoredAtStartup == {<<>>, <<FractionBoat>>}

Init ==
    /\ db \in BOOLEAN
    /\ phase = "startup"
    /\ boat \in (IF db THEN StoredAtStartup ELSE {<<>>})
    /\ booking = <<>>
    /\ resp = NoResponse
    /\ pending = EmptyDict
    /\ call = EmptyDict

Next ==
    \/ seed_boats
    \/ list_boats
    \/ \E body \in BoatBodies : create_boat(body)
    \/ \E req \in Requests : quote(req)
    \/ \E req \in Requests : create_booking(req)

Spec == Init /\ [][Next]_vars

(***************************************************************************)
(* create_booking on two worker threads: the handler's read of the boat    *)
(* (with the pricing) and its insert are separate steps, and the steps of  *)
(* two requests interleave.  The store is the one a first startup leaves.  *)
(***************************************************************************)
Workers == {"w1", "w2"}
Idle == [busy |-> FALSE]

InFlight == Cardinality({w \in Workers : pending[w].busy})

\* lines 254-273: the checks, the lookup, the pricing and booking_doc
booking_read(w, req) ==
    /\ ~pending[w].busy
    /\ LET doc == booking_doc(req)
       IN  IF doc.raised
           THEN /\ resp' = [op |-> "create_booking", req |-> req, result |-> doc]
                /\ pending' = pending
           ELSE /\ Len(booking) + InFlight < MaxBookings
                /\ pending' = [pending EXCEPT ![w] = [busy |-> TRUE, req |-> req,
                                                      doc |-> doc.value]]
                /\ resp' = resp
    /\ UNCHANGED <<db, phase, boat, booking, call>>

\* lines 275-276: create_document and the response
booking_insert(w) ==
    /\ pending[w].busy
    /\ booking' = create_document(booking, pending[w].doc)
    /\ resp' = [op |-> "create_booking", req |-> pending[w].req,
                result |-> booking_response(pending[w].doc, inserted_id(booking))]
    /\ pending' = [pending EXCEPT ![w] = Idle]
    /\ UNCHANGED <<db, phase, boat, call>>

BookingInit ==
    /\ db = TRUE
    /\ phase = "serving"
    /\ boat = sample_boats
    /\ booking = <<>>
    /\ resp = NoResponse
    /\ pending = [w \in Workers |-> Idle]
    /\ call = EmptyDict

BookingNext ==
    \/ \E w \in Workers, req \in Requests : booking_read(w, req)
    \/ \E w \in Workers : booking_insert(w)

SpecBooking == BookingInit /\ [][BookingNext]_vars

(***************************************************************************)
(* Direct calls of compute_quote                                           *)
(***************************************************************************)
ExtraKeys == {"skipper", "fuel", "snorkel", "wifi"}
ExtrasInputs == UNION {[keys -> BOOLEAN] : keys \in SUBSET ExtraKeys}
QuoteBoats ==
    {sample_boats[i] : i \in 1..Len(sample_boats)} \cup {NegativeBoat, FractionBoat, EmptyDict}

QuoteInit ==
    /\ db = FALSE /\ phase = "startup" /\ boat = <<>> /\ booking = <<>>
    /\ resp = EmptyDict /\ pending = EmptyDict
    /\ call \in {[done |-> FALSE, boat |-> b, start_date |-> s, end_date |-> e,
                  guests |-> g, extras |-> x, result |-> Return(EmptyDict)]
                 : b \in QuoteBoats, s \in 0..MaxDay, e \in 0..MaxDay,
                   g \in 1..MaxGuests, x \in ExtrasInputs}

CallComputeQuote ==
    /\ ~call.done
    /\ call' = [call EXCEPT !.done = TRUE,
                            !.result = compute_quote(call.boat, call.start_date,
                                                     call.end_date, call.guests,
                                                     call.extras)]
    /\ UNCHANGED <<db, phase, boat, booking, resp, pending>>

QuoteNext == CallComputeQuote

SpecQuote == QuoteInit /\ [][QuoteNext]_vars

(***************************************************************************)
(* Claims about compute_quote, checked under SpecQuote                     *)
(***************************************************************************)
Nights == call.end_date - call.start_date
Quoted == call.done /\ ~call.result.raised
Priced == call.result.value

RECURSIVE SumValues(_)
SumValues(f) ==
    IF DOMAIN f = {} THEN 0
    ELSE LET key == CHOOSE k \in DOMAIN f : TRUE
         IN  f[key] + SumValues([k \in DOMAIN f \ {key} |-> f[k]])

WholeCents(x) == x % 10 = 0

\* C1: for every boat, every date range of at least 1 night, every guest count
\* and every extras selection, total = base + sum of the extras map +
\* cleaning_fee + tax, tax = round(subtotal * tax_rate, 2) with subtotal = base +
\* sum of the extras map + cleaning_fee, and base, every extras value,
\* cleaning_fee, tax and total are whole numbers of cents.
C1_TotalIsSumOfParts ==
    (call.done /\ Nights >= 1) =>
        /\ ~call.result.raised
        /\ LET p == Priced
               subtotal == p.base + SumValues(p.extras) + p.cleaning_fee
           IN  /\ p.total = p.base + SumValues(p.extras) + p.cleaning_fee + p.tax
               /\ p.tax = round2(subtotal * Get(call.boat, "tax_rate", 0), 1000)
               /\ WholeCents(p.base) /\ WholeCents(p.cleaning_fee)
               /\ WholeCents(p.tax) /\ WholeCents(p.total)
               /\ \A key \in DOMAIN p.extras : WholeCents(p.extras[key])

\* a quote where every part is present and the rounding of base, cleaning_fee
\* and tax changed the value
C1_Witness ==
    /\ Quoted
    /\ call.boat = FractionBoat
    /\ Nights = 1
    /\ Cardinality(DOMAIN Priced.extras) = 3
    /\ Priced.base # call.boat.base_price_per_day
    /\ Priced.cleaning_fee # call.boat.cleaning_fee
    /\ Priced.tax > 0

\* C2: compute_quote fails with InvalidDateRange (400) exactly when end_date -
\* start_date is less than 1 day, and then produces no breakdown; otherwise it
\* succeeds and nights = end_date - start_date >= 1.
C2_InvalidDateRangeIffNoNight ==
    call.done =>
        IF Nights < 1
        THEN /\ call.result.raised
             /\ call.result.status_code = 400
             /\ call.result.detail = "End date must be after start date by at least 1 day"
             /\ "value" \notin DOMAIN call.result
        ELSE /\ ~call.result.raised
             /\ Priced.nights = Nights
             /\ Priced.nights >= 1

\* the boundary: end_date equal to start_date is refused
C2_Witness ==
    /\ call.done /\ call.end_date = call.start_date
    /\ call.result.raised /\ call.result.status_code = 400

\* the extras selection restricted to the catalog keys whose flag is true
CatalogKeys == {"skipper", "fuel", "snorkel"}
EnabledCatalogExtras(extras) ==
    [key \in {k \in DOMAIN extras \cap CatalogKeys : extras[k]} |-> TRUE]

\* C4: keys outside the catalog and keys whose flag is false never cause an
\* error, never appear in the extras map and change no priced field: the quote
\* with extras E is the quote with E restricted to the enabled catalog keys.
C4_UnknownAndDisabledExtrasIgnored ==
    (call.done /\ Nights >= 1) =>
        /\ ~call.result.raised
        /\ DOMAIN Priced.extras = DOMAIN EnabledCatalogExtras(call.extras)
        /\ call.result = compute_quote(call.boat, call.start_date, call.end_date,
                                       call.guests, EnabledCatalogExtras(call.extras))

\* a quote whose selection holds an unknown key, a disabled catalog key and an
\* enabled one
C4_Witness ==
    /\ Quoted
    /\ call.extras = [wifi |-> TRUE, fuel |-> FALSE, skipper |-> TRUE]
    /\ DOMAIN Priced.extras = {"skipper"}

ExtrasPricedByMode ==
    /\ "skipper" \in DOMAIN Priced.extras => Priced.extras["skipper"] = 150000 * Nights
    /\ "fuel" \in DOMAIN Priced.extras => Priced.extras["fuel"] = 80000 * Nights
    /\ "snorkel" \in DOMAIN Priced.extras =>
           Priced.extras["snorkel"] = 20000 * call.guests * Nights

IsExampleBoat ==
    /\ Get(call.boat, "base_price_per_day", 0) = 420000
    /\ Get(call.boat, "cleaning_fee", 0) = 35000
    /\ Get(call.boat, "tax_rate", 0) = 80

ExamplesHold ==
    /\ (IsExampleBoat /\ Nights = 3 /\ call.guests = 2
            /\ call.extras = [skipper |-> TRUE, snorkel |-> TRUE]) =>
           /\ Priced.base = 1260000
           /\ Priced.extras = [skipper |-> 450000, snorkel |-> 120000]
           /\ Priced.tax = 149200
           /\ Priced.total = 2014200
    /\ (IsExampleBoat /\ Nights = 1 /\ call.extras = EmptyDict) =>
           /\ Priced.base = 420000
           /\ Priced.tax = 36400
           /\ Priced.total = 491400

\* C5 as stated: every enabled catalog extra is priced by its mode, base = base
\* daily rate * nights, and the two worked examples hold.
C5_Original ==
    Quoted =>
        /\ ExtrasPricedByMode
        /\ Priced.base = Get(call.boat, "base_price_per_day", 0) * Nights
        /\ ExamplesHold

\* C5 amended: every enabled catalog extra is priced by its mode, base = base
\* daily rate * nights rounded to 2 decimals, and the two worked examples hold.
C5_PricedByMode ==
    Quoted =>
        /\ ExtrasPricedByMode
        /\ Priced.base = round2(Get(call.boat, "base_price_per_day", 0) * Nights, 1)
        /\ ExamplesHold

\* the first worked example
C5_Witness ==
    /\ Quoted /\ IsExampleBoat /\ Nights = 3 /\ call.guests = 2
    /\ call.extras = [skipper |-> TRUE, snorkel |-> TRUE]
    /\ Priced.total = 2014200

(***************************************************************************)
(* Claims about the handlers and the store                                 *)
(***************************************************************************)
Handled(op) == resp.op = op
BoatExists(boat_id) == IsObjectId(boat_id) /\ boat_id \in 1..Len(boat)
ValidRange(req) == req.end_date - req.start_date >= 1

StoreUnavailable == HTTPException(500, "Database not available")
InvalidIdentifier == HTTPException(400, "Invalid boat_id")
NotFound == HTTPException(404, "Boat not found")
InvalidDateRange ==
    HTTPException(400, "End date must be after start date by at least 1 day")

\* C3: whenever create_booking fails (StoreUnavailable, InvalidIdentifier,
\* NotFound or InvalidDateRange) the booking collection is left unchanged, and
\* a booking record is inserted only by a create_booking that returns an id.
C3_FailedBookingInsertsNothing ==
    [][ /\ (resp'.op = "create_booking" /\ resp'.result.raised) =>
              /\ booking' = booking
              /\ resp'.result \in
                     {StoreUnavailable, InvalidIdentifier, NotFound, InvalidDateRange}
        /\ booking' # booking =>
              /\ resp'.op = "create_booking"
              /\ ~resp'.result.raised
              /\ resp'.result.value.id = Len(booking')
      ]_vars

\* a create_booking refused for its date range, with a booking already stored
C3_Witness ==
    /\ Handled("create_booking")
    /\ resp.result = InvalidDateRange
    /\ resp.req.end_date = resp.req.start_date
    /\ Len(booking) = 1

IsPrefix(s, t) == Len(s) <= Len(t) /\ SubSeq(t, 1, Len(s)) = s

\* C6: every stored booking has status "requested"; a stored booking is never
\* modified or removed; the collection grows by exactly one record per
\* successful create_booking and by nothing else.
C6_BookingsOnlyGrowRequested ==
    /\ [](\A i \in 1..Len(booking) : booking[i].status = "requested")
    /\ [][ /\ IsPrefix(booking, booking')
           /\ Len(booking') <= Len(booking) + 1
           /\ (resp'.op = "create_booking" /\ ~resp'.result.raised)
                  <=> Len(booking') = Len(booking) + 1
         ]_vars

\* two bookings stored, then a request of another kind handled
C6_Witness ==
    /\ Len(booking) = 2
    /\ Handled("create_boat")
    /\ \A i \in 1..Len(booking) : booking[i].status = "requested"

\* C7: the outcome of create_booking does not depend on the stored bookings:
\* it fails exactly when the store is unavailable, the boat_id is malformed or
\* unknown, or the date range is invalid; so a request for an existing boat
\* and a valid range succeeds whatever bookings exist, also when its steps
\* interleave with those of another request, and leaves a record of its own.
C7_NoAvailabilityCheck ==
    Handled("create_booking") =>
        LET req == resp.req
            accepted == db /\ BoatExists(req.boat_id) /\ ValidRange(req)
        IN  /\ resp.result.raised <=> ~accepted
            /\ accepted =>
                  /\ resp.result.value.id \in 1..Len(booking)
                  /\ booking[resp.result.value.id].boat_id = req.boat_id
                  /\ booking[resp.result.value.id].start_date = isoformat(req.start_date)
                  /\ booking[resp.result.value.id].end_date = isoformat(req.end_date)

\* two records for the same boat and the same nights
C7_Witness ==
    /\ Len(booking) = 2
    /\ booking[1].boat_id = booking[2].boat_id
    /\ Overlap(booking[1].start_date[2], booking[1].end_date[2],
               booking[2].start_date[2], booking[2].end_date[2])
    /\ Handled("create_booking") /\ resp.result.value.id = 2

NonNegativeQuote(b) ==
    \A req \in Requests :
        LET q == compute_quote(b, req.start_date, req.end_date, req.guests, req.extras)
        IN  ~q.raised =>
                /\ q.value.base >= 0 /\ q.value.cleaning_fee >= 0
                /\ q.value.tax >= 0 /\ q.value.total >= 0

\* C8: every stored boat has a capacity >= 1, a base daily rate >= 0, a
\* cleaning fee >= 0 and a tax rate in [0, 0.3], so every quote computed from
\* a stored boat has non-negative base, cleaning_fee, tax and total.
C8_StoredBoatsValid ==
    \A i \in 1..Len(boat) : Boat(boat[i]) /\ NonNegativeQuote(boat[i])

\* C9: seeding inserts the three sample boats only when the boat collection
\* is empty at startup; with a boat already stored, or no store, it leaves the
\* store unchanged; a failure of count_documents or insert_many is swallowed
\* and startup completes.
C9_SeedOnlyWhenEmpty ==
    [][ phase = "startup" =>
            /\ phase' = "serving"
            /\ (~db \/ Len(boat) >= 1) => boat' = boat
            /\ boat' # boat => (db /\ Len(boat) = 0 /\ boat' = sample_boats)
            /\ (db /\ Len(boat) = 0 /\ resp'.req.fault = "none") => boat' = sample_boats
      ]_vars

\* a startup that found the boat collection empty has seeded it without a
\* store failure and is serving
C9_Witness ==
    /\ phase = "serving"
    /\ Handled("seed_boats") /\ resp.req.fault = "none"
    /\ boat = sample_boats

\* what a request gets when its checks are taken in the order StoreUnavailable,
\* InvalidIdentifier, NotFound, InvalidDateRange
FirstFailure(req) ==
    IF ~db THEN StoreUnavailable
    ELSE IF ~IsObjectId(req.boat_id) THEN InvalidIdentifier
    ELSE IF req.boat_id \notin 1..Len(boat) THEN NotFound
    ELSE IF ~ValidRange(req) THEN InvalidDateRange
    ELSE Return(EmptyDict)

\* C10: quote and create_booking report the first failing check in the order
\* StoreUnavailable, InvalidIdentifier, NotFound, InvalidDateRange, and return
\* a breakdown only when the boat was found, priced from that boat.
C10_ChecksInOrder ==
    (Handled("quote") \/ Handled("create_booking")) =>
        LET req == resp.req
            first == FirstFailure(req)
        IN  IF first.raised
            THEN resp.result = first
            ELSE /\ ~resp.result.raised
                 /\ LET priced == IF Handled("quote") THEN resp.result.value
                                  ELSE resp.result.value.pricing
                        expected == compute_quote(boat[req.boat_id], req.start_date,
                                                  req.end_date, req.guests, req.extras)
                    IN  \A f \in DOMAIN expected.value : priced[f] = expected.value[f]

\* an unknown boat_id together with an invalid date range yields NotFound
C10_Witness ==
    /\ Handled("create_booking")
    /\ db /\ IsObjectId(resp.req.boat_id) /\ ~BoatExists(resp.req.boat_id)
    /\ ~ValidRange(resp.req)
    /\ resp.result = NotFound

====
